---- MODULE Spec2Model ----
(***************************************************************************)
(* Model of photometry/prepare.py: create_hdf5 builds, for one sector /    *)
(* camera / CCD combination, a persistent HDF5 archive from numfiles FFI   *)
(* frames in five passes, each of which resumes from what the archive      *)
(* already holds.  A run may be interrupted between any two steps (an      *)
(* exception leaves the `with h5py.File` blocks, which close the files:    *)
(* every write made so far is kept) and the build is then invoked again.   *)
(*                                                                         *)
(* All array operations of the code are element-wise, so the model tracks  *)
(* one pixel of every image.  Pixel values are exact rationals <<n, d>>    *)
(* with d > 0; NaN is <<0, 0>>.  A flag bitmask is the set of its flags.   *)
(***************************************************************************)
EXTENDS Integers, Sequences, FiniteSets, TLC

\* Largest number of input frames (numfiles) of a build.
MaxFrames == 3
\* Largest number of interruptions over the runs of one behaviour.
MaxInterrupts == 1

\* Defaults of the settings read from backgrounds.attrs and pixel_flags.attrs.
time_smooth_default == 3
flux_cutoff_default == 80000
bkgiters_default == 3
radial_cutoff_default == 2400
radial_pixel_step_default == 15
bkgshe_threshold_default == 40
\* Offset between the catalog's reference time (JD) and the time vector (TJD).
TJDOffset == 2457000
\* The sector of the itertools.product combination the model follows.
sector == 1

-----------------------------------------------------------------------------
(* Keyed stores: an HDF5 group, attribute set or array is a function from   *)
(* the keys it holds to their values.                                       *)
EmptyF == [x \in {} |-> 0]

Put(f, key, v) == [x \in DOMAIN f \cup {key} |-> IF x = key THEN v ELSE f[x]]

Drop(f, keys) == [x \in DOMAIN f \ keys |-> f[x]]

Count(f) == Cardinality(DOMAIN f)

MaxOf(S) == CHOOSE x \in S : \A y \in S : y <= x

-----------------------------------------------------------------------------
(* Pixel values.                                                            *)
NaN == <<0, 0>>

IsFinite(v) == v[2] # 0

Abs(n) == IF n < 0 THEN -n ELSE n

RECURSIVE GCD(_, _)
GCD(a, b) == IF b = 0 THEN a ELSE GCD(b, a % b)

Norm(n, d) ==
    IF d = 0 THEN NaN
    ELSE LET g == GCD(Abs(n), Abs(d))
             s == IF d < 0 THEN -1 ELSE 1
         IN <<(s * n) \div g, (s * d) \div g>>

Num(n) == <<n, 1>>

RAdd(a, b) ==
    IF ~IsFinite(a) \/ ~IsFinite(b) THEN NaN
    ELSE Norm(a[1] * b[2] + b[1] * a[2], a[2] * b[2])

RSub(a, b) ==
    IF ~IsFinite(a) \/ ~IsFinite(b) THEN NaN
    ELSE Norm(a[1] * b[2] - b[1] * a[2], a[2] * b[2])

\* a / n for an integer count n; 0/0 is NaN.
RDiv(a, n) == IF ~IsFinite(a) THEN NaN ELSE Norm(a[1], a[2] * n)

\* A faulty variant that leaves the invalid values in.
ReplaceNaNMut(v) == v

\* bottleneck.replace(a, nan, 0)
ReplaceNaN(v) == IF IsFinite(v) THEN v ELSE Num(0)

RECURSIVE SumFinite(_, _)
SumFinite(f, S) ==
    IF S = {} THEN Num(0)
    ELSE LET i == CHOOSE x \in S : TRUE
         IN RAdd(ReplaceNaN(f[i]), SumFinite(f, S \ {i}))

\* bottleneck.nanmean over the values f[i], i in S
NanMean(f, S) ==
    LET fin == {i \in S : IsFinite(f[i])}
    IN RDiv(SumFinite(f, fin), Cardinality(fin))

-----------------------------------------------------------------------------
(* Pixel flags (PixelQualityFlags).                                         *)
NotUsedForBackground == "NotUsedForBackground"
ManualExclude == "ManualExclude"
BackgroundShenanigans == "BackgroundShenanigans"

\* np.where(mask, PixelQualityFlags.NotUsedForBackground, 0)
MaskToFlags(mask) == IF mask THEN {NotUsedForBackground} ELSE {}

\* A faulty variant that assigns the flag instead of ORing it in.
OrManualExcludeMut(flags) == {ManualExclude}

\* pixel_flags[dset_name][manexcl] |= PixelQualityFlags.ManualExclude
OrManualExclude(flags) == flags \cup {ManualExclude}

\* A faulty variant that assigns the flag instead of ORing it in.
OrShenanigansMut(flags) == {BackgroundShenanigans}

\* pixel_flags[dset_name][bckshe] |= PixelQualityFlags.BackgroundShenanigans
OrShenanigans(flags) == flags \cup {BackgroundShenanigans}

-----------------------------------------------------------------------------
(* Inputs of a build.  A frame is what the collaborators return for one     *)
(* FFI file: load_ffi_fits (flux, err and the header values), the           *)
(* background estimator fit_background (bck, mask), pixel_manual_exclude    *)
(* (manexcl) and pixel_background_shenanigans (she, the mask it returns     *)
(* for the frame's finalized image and the sum image).  The frames of the   *)
(* model are not TESS frames (is_tess stays False) and carry no FFIINDEX.   *)
FrameKinds ==
    { [id |-> 1, flux |-> Num(10), err |-> Num(1), bck |-> Num(0),
       mask |-> FALSE, manexcl |-> FALSE, she |-> FALSE, dquality |-> 0,
       backapp |-> FALSE, attr |-> 1, barycorr |-> 0],
      [id |-> 2, flux |-> Num(20), err |-> Num(2), bck |-> Num(6),
       mask |-> TRUE, manexcl |-> TRUE, she |-> FALSE, dquality |-> 0,
       backapp |-> FALSE, attr |-> 1, barycorr |-> 0],
      [id |-> 3, flux |-> Num(30), err |-> Num(3), bck |-> NaN,
       mask |-> FALSE, manexcl |-> FALSE, she |-> TRUE, dquality |-> 1,
       backapp |-> TRUE, attr |-> 2, barycorr |-> 1] }

\* The mid-exposure times 0.5*(TSTART + TSTOP) of numfiles frames: in
\* increasing order, or with the last two exchanged.
TimeVectors(n) ==
    LET sorted == [i \in 0..n-1 |-> 10 * (i + 1)]
    IN {sorted} \cup
       (IF n < 2 THEN {}
        ELSE {[sorted EXCEPT ![n-2] = sorted[n-1], ![n-1] = sorted[n-2]]})

\* A faulty variant that compares the first two times only.
TimeSortedMut(t) == 1 \in DOMAIN t => t[0] < t[1]

\* np.all(t[:-1] < t[1:])
TimeSorted(t) == \A i \in DOMAIN t : (i + 1) \in DOMAIN t => t[i] < t[i + 1]

\* reference_time of the catalog's settings row
RefTimes == {TJDOffset + 12}

VARIABLES
    numfiles,               \* len(files)
    files,                  \* the frames, by index
    hdrtime,                \* the frames' mid-exposure times, by index
    calc_movement_kernel,   \* the argument of create_hdf5
    sector_reference_time,  \* from the catalog
    combos,                 \* the combinations of sector, camera and CCD
    ci,                     \* number of combinations the loop has taken
    catalog_failed,         \* a catalog lookup of this build has failed
    outcomes,               \* what the photometry object of a call of
                            \* _try_photometry does
    try,                    \* the call of _try_photometry
    backgrounds,            \* hdf['backgrounds']: index -> smoothed background
    pixel_flags,            \* hdf['pixel_flags']: index -> set of flags
    images,                 \* hdf['images']
    images_err,             \* hdf['images_err']
    wcs,                    \* hdf['wcs']
    attrs,                  \* attributes of the archive's groups and datasets
    root,                   \* named datasets at the archive's root
    tmp_exists,             \* the temporary HDF5 file exists
    bck_us,                 \* hdftmp['backgrounds_unsmoothed']
    pc,                     \* position of the running build, "idle" if none
    k,                      \* the loop variable k
    loc,                    \* the other local variables of the run
    calls,                  \* collaborator invocations made by the running build
    status,                 \* how the last run ended
    runs,                   \* number of builds invoked (counted up to 2)
    interrupts              \* number of interruptions so far

\* The loop over the combinations, which no pass changes.
outer == <<combos, ci, catalog_failed>>
\* _try_photometry of tessphot.py, which create_hdf5 has no part in.
tessphot == <<outcomes, try>>
inputs == <<numfiles, files, hdrtime, calc_movement_kernel, sector_reference_time,
            outer, tessphot>>
store == <<backgrounds, pixel_flags, images, images_err, wcs, attrs, root>>
tmpfile == <<tmp_exists, bck_us>>
run == <<pc, k, loc, calls>>
ghost == <<status, runs, interrupts>>
vars == <<inputs, store, tmpfile, run, ghost>>

\* One sector, camera and CCD, whose files and catalog are found and which
\* the loop has taken.
OneCombination(n) ==
    /\ combos = <<[numfiles |-> n, catalog |-> "ok"]>>
    /\ ci = 1
    /\ catalog_failed = FALSE

\* No call of _try_photometry is made.
NoPhotometry ==
    /\ outcomes = [init |-> "ok", status0 |-> "OTHER", photometry |-> "ok",
                   status1 |-> "OTHER", save_lightcurve |-> "ok",
                   report_details |-> "ok"]
    /\ try = [pc |-> "idle"]

NoLocals ==
    [SumImage |-> Num(0), Nimg |-> 0, UsedInBackgrounds |-> 0,
     time |-> EmptyF, timecorr |-> EmptyF, cadenceno |-> EmptyF,
     quality |-> EmptyF, attributes |-> 0, flux0 |-> NaN, step |-> 0,
     time_smooth |-> 0, last_bck_fit |-> -1, last_bkgshe |-> 0, refindx |-> 0,
     kernel |-> EmptyF]

\* fit: the frames the estimator was called for; fin: those of them whose
\* call has returned
NoCalls == [fit |-> {}, fin |-> {}, she |-> {}, knl |-> {}]

Init ==
    /\ numfiles \in 1..MaxFrames
    /\ files \in [0..numfiles-1 -> FrameKinds]
    /\ hdrtime \in TimeVectors(numfiles)
    \* a build whose times are not increasing returns before it reads
    \* calc_movement_kernel, so one value of it is enough there
    /\ calc_movement_kernel \in
           IF TimeSorted(hdrtime) THEN BOOLEAN ELSE {TRUE}
    /\ sector_reference_time \in RefTimes
    /\ OneCombination(numfiles) /\ NoPhotometry
    /\ backgrounds = EmptyF /\ pixel_flags = EmptyF /\ images = EmptyF
    /\ images_err = EmptyF /\ wcs = EmptyF /\ attrs = EmptyF /\ root = EmptyF
    /\ tmp_exists = FALSE /\ bck_us = EmptyF
    /\ pc = "idle" /\ k = 0 /\ loc = NoLocals /\ calls = NoCalls
    /\ status = "none" /\ runs = 0 /\ interrupts = 0

\* group.attrs.get(name, default)
AttrGet(name, default) == IF name \in DOMAIN attrs THEN attrs[name] ELSE default

\* An exception leaves create_hdf5: the files are closed, the locals are lost.
Raise(error) ==
    /\ pc' = "idle" /\ k' = 0 /\ loc' = NoLocals /\ calls' = NoCalls
    /\ status' = error
    /\ UNCHANGED <<inputs, runs, interrupts>>

\* The run goes on at position next.
Goto(next) ==
    /\ pc' = next
    /\ UNCHANGED <<inputs, ghost>>

-----------------------------------------------------------------------------
(* Opening the archive.                                                     *)
Invoke ==
    /\ pc = "idle"
    /\ pc' = IF Count(backgrounds) < numfiles THEN "tmp_open" ELSE "p3_check"
    /\ k' = 0
    /\ loc' = [NoLocals EXCEPT
                 !.time_smooth = AttrGet("backgrounds.time_smooth", time_smooth_default)]
    /\ calls' = NoCalls
    /\ status' = "running"
    /\ runs' = IF runs < 2 THEN runs + 1 ELSE runs
    /\ UNCHANGED <<inputs, store, tmpfile, interrupts>>

\* Faulty variants of last_bck_fit: one that always starts over, and one
\* that takes the number of entries for the last index.
LastBckFitMut(flags) == -1
LastBckFitLen(flags) == Count(flags)

\* last_bck_fit = int(sorted(list(pixel_flags.keys()))[-1]), -1 when empty
LastBckFit(flags) == IF Count(flags) = 0 THEN -1 ELSE MaxOf(DOMAIN flags)

\* A faulty variant that takes pass 1 to be finished once any frame is in.
Pass1NeededMut == Count(pixel_flags) = 0

\* The condition under which pass 1 runs.
Pass1Needed == Count(pixel_flags) < numfiles

OpenTmp ==
    /\ pc = "tmp_open"
    /\ tmp_exists' = TRUE
    /\ IF Pass1Needed
       THEN /\ loc' = [loc EXCEPT !.last_bck_fit = LastBckFit(pixel_flags)]
            /\ k' = LastBckFit(pixel_flags) + 1
            /\ Goto("p1_loop")
       ELSE /\ k' = 0
            /\ Goto("p2_attrs")
            /\ UNCHANGED loc
    /\ UNCHANGED <<store, bck_us, calls>>

-----------------------------------------------------------------------------
(* Pass 1: background estimation.                                           *)

\* The next frame of m(fit_background_wrapper, files[k:]) can be handed
\* out: imap hands the frames out in their order, possibly ahead of the
\* loop, and yields the results in that order.
NextToFit(i) ==
    /\ pc \in {"p1_loop", "p1_flags"}
    /\ i \in k..(numfiles - 1) /\ i \notin calls.fit
    /\ \A j \in k..(i - 1) : j \in calls.fit

\* The estimator is called for the next frame and returns.
FitBackground(i) ==
    /\ NextToFit(i)
    /\ calls' = [calls EXCEPT !.fit = @ \cup {i}, !.fin = @ \cup {i}]
    /\ UNCHANGED <<inputs, store, tmpfile, pc, k, loc, ghost>>

\* A faulty variant that takes the slice from the first frame.
SliceMut(start, j) == j

\* files[start:][j] is files[start + j]
Slice(start, j) == start + j

\* The frame whose result the loop receives in the iteration for index i:
\* the results of m(fit_background_wrapper, files[k:]) come in the order
\* of the slice, the first of them in the iteration for last_bck_fit + 1.
FrameOfResult(i) ==
    files[Slice(loc.last_bck_fit + 1, i - (loc.last_bck_fit + 1))]

P1WriteBck ==
    /\ pc = "p1_loop" /\ k < numfiles /\ k \in calls.fin
    /\ IF k \in DOMAIN bck_us
       THEN Raise("exists") /\ UNCHANGED <<store, tmpfile>>
       ELSE /\ bck_us' = Put(bck_us, k, FrameOfResult(k).bck)
            /\ Goto("p1_flags")
            /\ UNCHANGED <<store, tmp_exists, k, loc, calls>>

P1WriteFlags ==
    /\ pc = "p1_flags"
    /\ IF k \in DOMAIN pixel_flags
       THEN Raise("exists") /\ UNCHANGED <<store, tmpfile>>
       ELSE /\ pixel_flags' = Put(pixel_flags, k, MaskToFlags(FrameOfResult(k).mask))
            /\ k' = k + 1
            /\ Goto("p1_loop")
            /\ UNCHANGED <<backgrounds, images, images_err, wcs, attrs, root,
                           tmpfile, loc, calls>>

\* The loop is over; last_bck_fit is not read after it.
P1Done ==
    /\ pc = "p1_loop" /\ k = numfiles
    /\ loc' = [loc EXCEPT !.last_bck_fit = -1]
    /\ Goto("p2_attrs")
    /\ UNCHANGED <<store, tmpfile, k, calls>>

-----------------------------------------------------------------------------
(* Pass 2: smoothing the backgrounds along the time axis.                   *)
P2Attrs ==
    /\ pc = "p2_attrs"
    /\ attrs' = Put(Put(Put(Put(Put(attrs,
                    "backgrounds.time_smooth", loc.time_smooth),
                    "backgrounds.flux_cutoff",
                        AttrGet("backgrounds.flux_cutoff", flux_cutoff_default)),
                    "backgrounds.bkgiters",
                        AttrGet("backgrounds.bkgiters", bkgiters_default)),
                    "backgrounds.radial_cutoff",
                        AttrGet("backgrounds.radial_cutoff", radial_cutoff_default)),
                    "backgrounds.radial_pixel_step",
                        AttrGet("backgrounds.radial_pixel_step", radial_pixel_step_default))
    /\ k' = 0
    /\ Goto("p2_loop")
    /\ UNCHANGED <<backgrounds, pixel_flags, images, images_err, wcs, root,
                   tmpfile, loc, calls>>

Min2(a, b) == IF a < b THEN a ELSE b
Max2(a, b) == IF a > b THEN a ELSE b

\* A faulty variant whose window ends one frame early.
WindowMut(i, w, n) == Max2(i - w, 0)..(Min2(i + w, n) - 1)

\* range(indx1, indx2) for frame i, with w = time_smooth//2
Window(i, w, n) == Max2(i - w, 0)..(Min2(i + w + 1, n) - 1)

P2Skip ==
    /\ pc = "p2_loop" /\ k < numfiles /\ k \in DOMAIN backgrounds
    /\ k' = k + 1
    /\ Goto("p2_loop")
    /\ UNCHANGED <<store, tmpfile, loc, calls>>

P2Smooth ==
    /\ pc = "p2_loop" /\ k < numfiles /\ k \notin DOMAIN backgrounds
    /\ LET win == Window(k, loc.time_smooth \div 2, numfiles)
       IN IF ~(win \subseteq DOMAIN bck_us)
          THEN Raise("KeyError") /\ UNCHANGED <<store, tmpfile>>
          ELSE /\ backgrounds' = Put(backgrounds, k, NanMean(bck_us, win))
               /\ k' = k + 1
               /\ Goto("p2_loop")
               /\ UNCHANGED <<pixel_flags, images, images_err, wcs, attrs, root,
                              tmpfile, loc, calls>>

P2Done ==
    /\ pc = "p2_loop" /\ k = numfiles
    /\ Goto("tmp_remove")
    /\ UNCHANGED <<store, tmpfile, k, loc, calls>>

\* os.remove(tmp_hdf_file)
RemoveTmp ==
    /\ pc = "tmp_remove"
    /\ tmp_exists' = FALSE /\ bck_us' = EmptyF
    /\ Goto("p3_check")
    /\ UNCHANGED <<store, k, loc, calls>>

-----------------------------------------------------------------------------
(* Pass 3: final processing of the individual images.                       *)

\* A faulty variant that runs pass 3 in every build.
Pass3NeededMut == TRUE

\* The condition under which pass 3 runs.
Pass3Needed ==
    \/ Count(images) < numfiles
    \/ Count(wcs) < numfiles
    \/ "sumimage" \notin DOMAIN root
    \/ "backgrounds_pixels_used" \notin DOMAIN root

\* the else branch: SumImage = np.asarray(hdf['sumimage'])
P3Skip ==
    /\ pc = "p3_check" /\ ~Pass3Needed
    /\ IF "sumimage" \notin DOMAIN root
       THEN Raise("KeyError")
       ELSE /\ loc' = [loc EXCEPT !.SumImage = root["sumimage"]]
            /\ Goto("p4_check")
            /\ UNCHANGED <<k, calls>>
    /\ UNCHANGED <<store, tmpfile>>

P3Begin ==
    /\ pc = "p3_check" /\ Pass3Needed
    /\ IF "imagespaths" \in DOMAIN root /\ Count(root["imagespaths"]) # numfiles
       THEN Raise("TypeError") /\ UNCHANGED <<store, tmpfile>>
       ELSE /\ root' = IF "imagespaths" \in DOMAIN root THEN root
                       ELSE Put(root, "imagespaths",
                                [i \in 0..numfiles-1 |-> files[i].id])
            /\ loc' = [loc EXCEPT !.SumImage = Num(0), !.Nimg = 0,
                                  !.UsedInBackgrounds = 0, !.attributes = 0]
            /\ k' = 0
            /\ Goto("p3_loop")
            /\ UNCHANGED <<backgrounds, pixel_flags, images, images_err, wcs,
                           attrs, tmpfile, calls>>

\* A faulty variant that takes the value of every frame.
AttributesMut(i, value, attributes) == value

\* attributes[key] = hdr.get(key) if k == 0; a later frame whose value
\* differs is logged only
Attributes(i, value, attributes) == IF i = 0 THEN value ELSE attributes

\* The header values of frame k, and the manual excludes ORed into its flags.
P3ManExcl ==
    /\ pc = "p3_loop" /\ k < numfiles
    /\ IF files[k].manexcl /\ k \notin DOMAIN pixel_flags
       THEN Raise("KeyError") /\ UNCHANGED <<store, tmpfile>>
       ELSE /\ loc' = [loc EXCEPT
                         !.time = Put(@, k, hdrtime[k]),
                         !.timecorr = Put(@, k, files[k].barycorr),
                         !.cadenceno = Put(@, k, k + 1),
                         !.quality = Put(@, k, files[k].dquality),
                         !.attributes = Attributes(k, files[k].attr, @)]
            /\ pixel_flags' =
                 IF files[k].manexcl
                 THEN Put(pixel_flags, k, OrManualExclude(pixel_flags[k]))
                 ELSE pixel_flags
            /\ Goto("p3_image")
            /\ UNCHANGED <<backgrounds, images, images_err, wcs, attrs, root,
                           tmpfile, k, calls>>

\* flux0[manexcl] = nan
Exclude(v, manexcl) == IF manexcl THEN NaN ELSE v

\* The image saved for a frame: manual excludes masked out, the smoothed
\* background subtracted unless the header says it already was.
FinalImage(frame, bkg) ==
    IF frame.backapp THEN Exclude(frame.flux, frame.manexcl)
    ELSE RSub(Exclude(frame.flux, frame.manexcl), bkg)

P3Image ==
    /\ pc = "p3_image" /\ k \notin DOMAIN images
    /\ IF ~files[k].backapp /\ k \notin DOMAIN backgrounds
       THEN Raise("KeyError") /\ UNCHANGED <<store, tmpfile>>
       ELSE LET flux0 == FinalImage(files[k],
                            IF files[k].backapp THEN NaN ELSE backgrounds[k])
            IN /\ images' = Put(images, k, flux0)
               /\ loc' = [loc EXCEPT !.flux0 = flux0]
               /\ Goto("p3_err")
               /\ UNCHANGED <<backgrounds, pixel_flags, images_err, wcs, attrs,
                              root, tmpfile, k, calls>>

P3ImageErr ==
    /\ pc = "p3_err"
    /\ IF k \in DOMAIN images_err
       THEN Raise("exists") /\ UNCHANGED <<store, tmpfile>>
       ELSE /\ images_err' = Put(images_err, k,
                                 Exclude(files[k].err, files[k].manexcl))
            /\ Goto("p3_wcs")
            /\ UNCHANGED <<backgrounds, pixel_flags, images, wcs, attrs, root,
                           tmpfile, k, loc, calls>>

\* A faulty variant of the else branch that keeps the raw image.
LoadedFluxMut(i) == Exclude(files[i].flux, files[i].manexcl)

\* the else branch: flux0 is the image already in the archive
LoadedFlux(i) == Exclude(images[i], files[i].manexcl)

P3ImageLoad ==
    /\ pc = "p3_image" /\ k \in DOMAIN images
    /\ loc' = [loc EXCEPT !.flux0 = LoadedFlux(k)]
    /\ Goto("p3_wcs")
    /\ UNCHANGED <<store, tmpfile, k, calls>>

\* TESSQualityFlags.filter
QualityFilter(q) == q = 0

\* The WCS of frame k is saved, and the frame is added to the sum image and
\* to the count of frames that used the pixel in the background estimation.
P3Wcs ==
    /\ pc = "p3_wcs"
    /\ IF k \notin DOMAIN pixel_flags
       THEN Raise("KeyError") /\ UNCHANGED <<store, tmpfile>>
       ELSE /\ wcs' = IF k \in DOMAIN wcs THEN wcs ELSE Put(wcs, k, files[k].id)
            /\ loc' = [loc EXCEPT
                 !.Nimg = IF QualityFilter(loc.quality[k]) /\ IsFinite(loc.flux0)
                          THEN @ + 1 ELSE @,
                 !.SumImage = IF QualityFilter(loc.quality[k])
                              THEN RAdd(@, ReplaceNaN(loc.flux0)) ELSE @,
                 !.UsedInBackgrounds =
                     IF NotUsedForBackground \notin pixel_flags[k]
                     THEN @ + 1 ELSE @]
            /\ k' = k + 1
            /\ Goto("p3_loop")
            /\ UNCHANGED <<backgrounds, pixel_flags, images, images_err, attrs,
                           root, tmpfile, calls>>

\* backgrounds_pixels_threshold, the argument of create_hdf5 (default 0.5)
backgrounds_pixels_threshold == <<1, 2>>

\* A faulty variant that takes in the threshold itself.
PixelsUsedMut(used, n) ==
    used * backgrounds_pixels_threshold[2] >= n * backgrounds_pixels_threshold[1]

\* UsedInBackgrounds/numfiles > backgrounds_pixels_threshold
PixelsUsed(used, n) ==
    used * backgrounds_pixels_threshold[2] > n * backgrounds_pixels_threshold[1]

\* SumImage /= Nimg, and the backgrounds_pixels_used image
P3Normalize ==
    /\ pc = "p3_loop" /\ k = numfiles
    /\ loc' = [loc EXCEPT !.SumImage = RDiv(@, loc.Nimg), !.step = 1]
    /\ IF "backgrounds_pixels_used" \in DOMAIN root
       THEN UNCHANGED <<root, attrs>>
       ELSE /\ root' = Put(root, "backgrounds_pixels_used",
                           PixelsUsed(loc.UsedInBackgrounds, numfiles))
            /\ attrs' = Put(attrs, "backgrounds_pixels_used.threshold",
                            backgrounds_pixels_threshold)
    /\ Goto("p3_attrs")
    /\ UNCHANGED <<backgrounds, pixel_flags, images, images_err, wcs,
                   tmpfile, k, calls>>

P3Attrs ==
    /\ pc = "p3_attrs"
    /\ attrs' = Put(Put(Put(Put(attrs,
                    "images.SECTOR", sector),
                    "images.CAMERA", loc.attributes),
                    "images.PIXEL_OFFSET_ROW", 0),
                    "images.PIXEL_OFFSET_COLUMN", 0)
    /\ Goto("p3_del")
    /\ UNCHANGED <<backgrounds, pixel_flags, images, images_err, wcs, root,
                   tmpfile, k, loc, calls>>

\* The arrays deleted and created at the end of pass 3, in the code's order.
DelOrder == <<"time", "timecorr", "sumimage", "cadenceno", "quality">>
CreateOrder == <<"sumimage", "time", "timecorr", "cadenceno", "quality">>

\* if name in hdf: del hdf[name]; one step per deletion, the names that
\* are not in hdf are passed over
P3DelOld ==
    /\ pc = "p3_del"
    /\ LET present == {n \in loc.step..Len(DelOrder) : DelOrder[n] \in DOMAIN root}
       IN  IF present = {}
           THEN /\ loc' = [loc EXCEPT !.step = 1]
                /\ Goto("p3_create")
                /\ UNCHANGED root
           ELSE LET n == CHOOSE m \in present : \A o \in present : m <= o
                IN  /\ root' = Drop(root, {DelOrder[n]})
                    /\ loc' = [loc EXCEPT !.step = n + 1]
                    /\ Goto("p3_del")
    /\ UNCHANGED <<backgrounds, pixel_flags, images, images_err, wcs, attrs,
                   tmpfile, k, calls>>

LocalArray(name) ==
    CASE name = "sumimage" -> loc.SumImage
      [] name = "time" -> loc.time
      [] name = "timecorr" -> loc.timecorr
      [] name = "cadenceno" -> loc.cadenceno
      [] name = "quality" -> loc.quality

\* hdf.create_dataset(name, data=...)
P3Create ==
    /\ pc = "p3_create"
    /\ LET name == CreateOrder[loc.step]
       IN IF name \in DOMAIN root
          THEN Raise("exists") /\ UNCHANGED <<store, tmpfile>>
          ELSE /\ root' = Put(root, name, LocalArray(name))
               /\ loc' = [loc EXCEPT !.step = IF @ = Len(CreateOrder) THEN 0 ELSE @ + 1]
               /\ Goto(IF loc.step = Len(CreateOrder) THEN "p4_check" ELSE "p3_create")
               /\ UNCHANGED <<backgrounds, pixel_flags, images, images_err, wcs,
                              attrs, tmpfile, k, calls>>

-----------------------------------------------------------------------------
(* Pass 4: detection and flagging of background shenanigans.                *)

\* last_bkgshe
LastBkgShe == AttrGet("pixel_flags.bkgshe_done", 0)

P4Skip ==
    /\ pc = "p4_check" /\ ~(LastBkgShe < numfiles)
    /\ Goto("time_check")
    /\ UNCHANGED <<store, tmpfile, k, loc, calls>>

P4Begin ==
    /\ pc = "p4_check" /\ LastBkgShe < numfiles
    /\ attrs' = Put(attrs, "pixel_flags.bkgshe_threshold",
                    AttrGet("pixel_flags.bkgshe_threshold", bkgshe_threshold_default))
    /\ loc' = [loc EXCEPT !.last_bkgshe = LastBkgShe]
    /\ k' = LastBkgShe
    /\ Goto("p4_loop")
    /\ UNCHANGED <<backgrounds, pixel_flags, images, images_err, wcs, root,
                   tmpfile, calls>>

\* The indices _iterate_hdf_group(dset, start) still has to yield.
IterateHdfGroup(dset, start) == start..(Count(dset) - 1)

\* The detector is called for the next image of
\* m(pixel_background_shenanigans_wrapper, _iterate_hdf_group(images, start=k)).
Shenanigans(i) ==
    /\ pc \in {"p4_loop", "p4_mark"}
    /\ i \in IterateHdfGroup(images, k) /\ i \in DOMAIN images
    /\ i \notin calls.she /\ \A j \in k..(i - 1) : j \in calls.she
    /\ calls' = [calls EXCEPT !.she = @ \cup {i}]
    /\ UNCHANGED <<inputs, store, tmpfile, pc, k, loc, ghost>>

\* The mask the detector returns for the image of frame i and the sum image.
Detector(i) == files[i].she

\* dset_name, formatted after k += 1, for the mask of the image at index i
ShenanigansDset(i) == i + 1

\* k += 1 and, the mask of image k not being empty, the flags of dset_name
P4Flags ==
    /\ pc = "p4_loop" /\ k \in calls.she /\ Detector(k)
    /\ LET dset_name == ShenanigansDset(k)
       IN IF dset_name \notin DOMAIN pixel_flags
          THEN Raise("KeyError") /\ UNCHANGED <<store, tmpfile>>
          ELSE /\ pixel_flags' =
                    Put(pixel_flags, dset_name,
                        OrShenanigans(pixel_flags[dset_name]))
               /\ k' = k + 1
               /\ Goto("p4_mark")
               /\ UNCHANGED <<backgrounds, images, images_err, wcs, attrs, root,
                              tmpfile, loc, calls>>

\* k += 1, the mask of image k being empty
P4NoFlags ==
    /\ pc = "p4_loop" /\ k \in calls.she /\ ~Detector(k)
    /\ k' = k + 1
    /\ Goto("p4_mark")
    /\ UNCHANGED <<store, tmpfile, loc, calls>>

\* pixel_flags.attrs['bkgshe_done'] = k
P4Mark ==
    /\ pc = "p4_mark"
    /\ attrs' = Put(attrs, "pixel_flags.bkgshe_done", k)
    /\ Goto("p4_loop")
    /\ UNCHANGED <<backgrounds, pixel_flags, images, images_err, wcs, root,
                   tmpfile, k, loc, calls>>

P4Done ==
    /\ pc = "p4_loop" /\ IterateHdfGroup(images, k) = {}
    /\ Goto("time_check")
    /\ UNCHANGED <<store, tmpfile, k, loc, calls>>

-----------------------------------------------------------------------------
(* The time vector, the reference frame and the movement kernels.           *)

\* The work on the archive is over: the loop goes on with the combinations
\* it has not yet taken when the end of its body is reached, and
\* create_hdf5 is left otherwise.
Finish(how) ==
    /\ k' = 0 /\ loc' = NoLocals /\ calls' = NoCalls
    /\ IF how = "done" /\ ci < Len(combos)
       THEN pc' = "combo" /\ status' = status
       ELSE pc' = "idle" /\ status' = how
    /\ UNCHANGED <<inputs, runs, interrupts>>

CheckTime ==
    /\ pc = "time_check"
    /\ IF "time" \notin DOMAIN root
       THEN Raise("KeyError")
       ELSE IF ~TimeSorted(root["time"])
            THEN Finish("returned")
            ELSE Goto("ref") /\ UNCHANGED <<k, loc, calls>>
    /\ UNCHANGED <<store, tmpfile>>

\* utilities.find_nearest: the index of the value of t nearest to v
FindNearest(t, v) ==
    CHOOSE i \in DOMAIN t :
        \A j \in DOMAIN t :
            \/ Abs(t[i] - v) < Abs(t[j] - v)
            \/ (Abs(t[i] - v) = Abs(t[j] - v) /\ i <= j)

\* A faulty variant that leaves the reference time in Julian days.
SectorReferenceTimeTjdMut(t) == t

\* sector_reference_time_tjd = sector_reference_time - 2457000
SectorReferenceTimeTjd(t) == t - TJDOffset

\* wcs.attrs['ref_frame'] = refindx
WriteRef ==
    /\ pc = "ref"
    /\ LET refindx == FindNearest(root["time"],
                                  SectorReferenceTimeTjd(sector_reference_time))
       IN /\ attrs' = Put(attrs, "wcs.ref_frame", refindx)
          /\ IF calc_movement_kernel /\ "movement_kernel" \notin DOMAIN root
             THEN /\ loc' = [loc EXCEPT !.refindx = refindx, !.kernel = EmptyF]
                  /\ k' = 0
                  /\ Goto("p5_loop")
                  /\ UNCHANGED calls
             ELSE Finish("done")
    /\ UNCHANGED <<backgrounds, pixel_flags, images, images_err, wcs, root, tmpfile>>

\* calc_kernel is called for the next image of m(imk.calc_kernel, datasets).
CalcKernel(i) ==
    /\ pc = "p5_loop"
    /\ i \in IterateHdfGroup(images, k) /\ i \in DOMAIN images
    /\ i \notin calls.knl /\ \A j \in k..(i - 1) : j \in calls.knl
    /\ calls' = [calls EXCEPT !.knl = @ \cup {i}]
    /\ UNCHANGED <<inputs, store, tmpfile, pc, k, loc, ghost>>

\* ImageMovementKernel.calc_kernel: the registration of an image against
\* the reference image.
KernelOf(image, image_ref) == <<image, image_ref>>

\* kernel[k, :] = knl
P5Collect ==
    /\ pc = "p5_loop" /\ k \in calls.knl
    /\ loc' = [loc EXCEPT !.kernel = Put(@, k, KernelOf(images[k], images[loc.refindx]))]
    /\ k' = k + 1
    /\ Goto("p5_loop")
    /\ UNCHANGED <<store, tmpfile, calls>>

\* hdf.create_dataset('movement_kernel', data=kernel)
P5Save ==
    /\ pc = "p5_loop" /\ IterateHdfGroup(images, k) = {}
    /\ root' = Put(root, "movement_kernel", loc.kernel)
    /\ Goto("p5_attrs")
    /\ UNCHANGED <<backgrounds, pixel_flags, images, images_err, wcs, attrs,
                   tmpfile, k, loc, calls>>

P5Attrs ==
    /\ pc = "p5_attrs"
    /\ attrs' = Put(Put(attrs, "movement_kernel.warpmode", "translation"),
                    "movement_kernel.ref_frame", loc.refindx)
    /\ Finish("done")
    /\ UNCHANGED <<backgrounds, pixel_flags, images, images_err, wcs, root, tmpfile>>

-----------------------------------------------------------------------------
(* Interruption of the running build.                                       *)

Interrupt ==
    /\ pc # "idle" /\ interrupts < MaxInterrupts
    /\ pc' = "idle" /\ k' = 0 /\ loc' = NoLocals /\ calls' = NoCalls
    /\ status' = "interrupted"
    /\ interrupts' = interrupts + 1
    /\ UNCHANGED <<inputs, store, tmpfile, runs>>

\* The steps of a running build.
RunStep ==
    \/ OpenTmp
    \/ \E i \in 0..(MaxFrames - 1) : FitBackground(i)
    \/ P1WriteBck \/ P1WriteFlags \/ P1Done
    \/ P2Attrs \/ P2Skip \/ P2Smooth \/ P2Done \/ RemoveTmp
    \/ P3Skip \/ P3Begin \/ P3ManExcl \/ P3Image \/ P3ImageErr \/ P3ImageLoad
    \/ P3Wcs \/ P3Normalize \/ P3Attrs \/ P3DelOld \/ P3Create
    \/ P4Skip \/ P4Begin
    \/ \E i \in 0..(MaxFrames - 1) : Shenanigans(i)
    \/ P4Flags \/ P4NoFlags \/ P4Mark \/ P4Done
    \/ CheckTime \/ WriteRef
    \/ \E i \in 0..(MaxFrames - 1) : CalcKernel(i)
    \/ P5Collect \/ P5Save \/ P5Attrs

Next == Invoke \/ RunStep \/ Interrupt

Spec == Init /\ [][Next]_vars

\* The positions between two frames of a pass, or between two passes.
CleanPoints ==
    {"tmp_open", "p1_loop", "p2_attrs", "p2_loop", "tmp_remove", "p3_check",
     "p3_loop", "p4_check", "p4_loop", "time_check", "ref", "p5_loop"}

\* The build is stopped only after a pass has committed a prefix of frames.
InterruptBetweenFrames == pc \in CleanPoints /\ Interrupt

NextBetweenFrames == Invoke \/ RunStep \/ InterruptBetweenFrames

SpecBetweenFrames == Init /\ [][NextBetweenFrames]_vars

\* The build goes on while it runs and is invoked again after it stopped.
LiveSpec == Init /\ [][Next]_vars /\ WF_vars(Invoke \/ RunStep)

-----------------------------------------------------------------------------
(* Properties.                                                              *)

\* The result of pass 1 for frame i is committed: its flags dataset, the
\* last write of its iteration, is in the archive.
Committed1(i) == i \in DOMAIN pixel_flags

\* The result of pass 4 for frame i is committed: bkgshe_done, the last
\* write of its iteration, is beyond i.
Committed4(i) ==
    /\ "pixel_flags.bkgshe_done" \in DOMAIN attrs
    /\ i < attrs["pixel_flags.bkgshe_done"]

\* C1: no run, resumed after an interruption at any point, calls the
\* background estimator or the anomaly detector for a frame whose result for
\* that pass is already committed to the archive.
C1_NoRedo ==
    [][ /\ \A i \in calls'.fit \ calls.fit : ~Committed1(i)
        /\ \A i \in calls'.she \ calls.she : ~Committed4(i) ]_vars

\* A resumed run has called the estimator, and not for the committed frame 0.
C1_Resumed ==
    /\ interrupts > 0 /\ pc = "p1_loop"
    /\ Committed1(0) /\ calls.fit # {} /\ 0 \notin calls.fit

\* C2: a build run again after an uninterrupted build leaves the archive as
\* it was and calls neither the estimator, the detector nor calc_kernel.
C2_SecondRunNoWork ==
    [][(runs = 2 /\ interrupts = 0) => (store' = store /\ calls' = NoCalls)]_vars

Dense(group) == DOMAIN group = 0..(Count(group) - 1) /\ Count(group) <= numfiles

\* C5: in every reachable archive state the indices held by pixel_flags,
\* backgrounds, images and wcs are each 0..n-1 for some n <= numfiles.
C5_Dense ==
    Dense(pixel_flags) /\ Dense(backgrounds) /\ Dense(images) /\ Dense(wcs)

\* A resumed pass 3 with the groups filled to different lengths.
C5_Partial ==
    /\ interrupts > 0 /\ pc = "p3_loop"
    /\ 0 < Count(wcs) /\ Count(wcs) < Count(images) /\ Count(images) < numfiles

\* C6: bkgshe_done has value v only when, for every i < v, the mask the
\* detector returns for image i has been ORed into the flags of frame i.
C6_MarkerCoversFlags ==
    \A i \in 0..(numfiles - 1) :
        (Committed4(i) /\ Detector(i)) =>
            (i \in DOMAIN pixel_flags /\ BackgroundShenanigans \in pixel_flags[i])

\* C7: the mask the detector returns for image i is ORed into the flags of
\* frame i and of no other frame, for the last frame as for the others.
C7_MaskIntoOwnFrame ==
    /\ \A i \in DOMAIN pixel_flags :
           BackgroundShenanigans \in pixel_flags[i] => Detector(i)
    /\ \A i \in 0..(numfiles - 1) :
           (Committed4(i) /\ Detector(i)) => BackgroundShenanigans \in pixel_flags[i]

\* C8: frame k's background is subtracted only with its smoothed background
\* in the archive, frame k is smoothed only with the raw background of every
\* index of its window in the temporary file, and the detector runs on
\* frame k only with its image saved and the sum image normalized and stored.
C8_PassOrder ==
    /\ pc \in {"p3_image", "p3_err"} => k \in DOMAIN backgrounds
    /\ (pc = "p2_loop" /\ k < numfiles /\ k \notin DOMAIN backgrounds) =>
           LET w == loc.time_smooth \div 2
           IN \A i \in Max2(k - w, 0)..(Min2(k + w + 1, numfiles) - 1) :
                  i \in DOMAIN bck_us
    /\ pc \in {"p4_loop", "p4_mark"} =>
           /\ calls.she \subseteq DOMAIN images
           /\ Count(images) = numfiles
           /\ "sumimage" \in DOMAIN root /\ loc.SumImage = root["sumimage"]

\* A resumed run is in pass 4 with the detector called.
C8_Resumed ==
    /\ interrupts > 0 /\ pc = "p4_mark" /\ calls.she # {} /\ k = numfiles

\* C9: no step clears a flag of a frame: the flags of every frame after a
\* step include its flags before the step.
C9_FlagsMonotone ==
    [][\A i \in DOMAIN pixel_flags :
           i \in DOMAIN pixel_flags' /\ pixel_flags[i] \subseteq pixel_flags'[i]]_vars

\* After pass 4 a frame carries the flags of passes 1, 3 and 4.
C9_AllFlags ==
    /\ status = "done"
    /\ \E i \in DOMAIN pixel_flags :
           pixel_flags[i] = {NotUsedForBackground, ManualExclude, BackgroundShenanigans}

Kept(group, group2) ==
    \A i \in DOMAIN group : i \in DOMAIN group2 /\ group2[i] = group[i]

\* C10 as claimed: once the entry of index k is in a per-frame group, no
\* step creates, replaces or modifies it.
C10_WrittenOnce ==
    [][ /\ Kept(backgrounds, backgrounds') /\ Kept(images, images')
        /\ Kept(images_err, images_err') /\ Kept(wcs, wcs')
        /\ Kept(pixel_flags, pixel_flags') ]_vars

\* C10, amended: once the entry of index k is in backgrounds, images,
\* images_err or wcs no step changes it; an entry of pixel_flags is never
\* removed or replaced, later steps only OR flags into it.
C10_AppendOnly ==
    [][ /\ Kept(backgrounds, backgrounds') /\ Kept(images, images')
        /\ Kept(images_err, images_err') /\ Kept(wcs, wcs')
        /\ \A i \in DOMAIN pixel_flags :
               /\ i \in DOMAIN pixel_flags'
               /\ pixel_flags[i] \subseteq pixel_flags'[i]
               /\ pixel_flags'[i] \ pixel_flags[i] \subseteq
                      {ManualExclude, BackgroundShenanigans} ]_vars

\* A resumed pass 3 is at a frame whose image is saved and whose flags it
\* has ORed the manual excludes into.
C10_Revisit ==
    /\ interrupts > 0 /\ pc = "p3_image"
    /\ k \in DOMAIN images /\ k \in DOMAIN wcs
    /\ ManualExclude \in pixel_flags[k]

-----------------------------------------------------------------------------
(* The archive one uninterrupted build leaves when it runs to its end.      *)
Frames == 0..(numfiles - 1)

UninterruptedBackgrounds ==
    [i \in Frames |->
        NanMean([j \in Frames |-> files[j].bck],
                Window(i, time_smooth_default \div 2, numfiles))]

UninterruptedFlags ==
    [i \in Frames |->
        LET f1 == MaskToFlags(files[i].mask)
            f3 == IF files[i].manexcl THEN OrManualExclude(f1) ELSE f1
        IN IF \E j \in Frames : ShenanigansDset(j) = i /\ Detector(j)
           THEN OrShenanigans(f3) ELSE f3]

UninterruptedImages ==
    [i \in Frames |-> FinalImage(files[i], UninterruptedBackgrounds[i])]

UninterruptedSumImage ==
    LET good == {i \in Frames : QualityFilter(files[i].dquality)}
    IN RDiv(SumFinite(UninterruptedImages, good),
            Cardinality({i \in good : IsFinite(UninterruptedImages[i])}))

UninterruptedRefindx == FindNearest(hdrtime, sector_reference_time - TJDOffset)

UninterruptedRoot ==
    LET base ==
            ("imagespaths" :> [i \in Frames |-> files[i].id]) @@
            ("backgrounds_pixels_used" :>
                PixelsUsed(Cardinality({i \in Frames : ~files[i].mask}), numfiles)) @@
            ("sumimage" :> UninterruptedSumImage) @@
            ("time" :> hdrtime) @@
            ("timecorr" :> [i \in Frames |-> files[i].barycorr]) @@
            ("cadenceno" :> [i \in Frames |-> i + 1]) @@
            ("quality" :> [i \in Frames |-> files[i].dquality])
    IN IF calc_movement_kernel /\ TimeSorted(hdrtime)
       THEN base @@
            ("movement_kernel" :>
                [i \in Frames |-> KernelOf(UninterruptedImages[i],
                                           UninterruptedImages[UninterruptedRefindx])])
       ELSE base

UninterruptedAttrs ==
    LET base ==
            ("backgrounds.time_smooth" :> time_smooth_default) @@
            ("backgrounds.flux_cutoff" :> flux_cutoff_default) @@
            ("backgrounds.bkgiters" :> bkgiters_default) @@
            ("backgrounds.radial_cutoff" :> radial_cutoff_default) @@
            ("backgrounds.radial_pixel_step" :> radial_pixel_step_default) @@
            ("backgrounds_pixels_used.threshold" :> backgrounds_pixels_threshold) @@
            ("images.SECTOR" :> sector) @@
            ("images.CAMERA" :> files[0].attr) @@
            ("images.PIXEL_OFFSET_ROW" :> 0) @@
            ("images.PIXEL_OFFSET_COLUMN" :> 0) @@
            ("pixel_flags.bkgshe_threshold" :> bkgshe_threshold_default) @@
            ("pixel_flags.bkgshe_done" :> numfiles)
        ref == ("wcs.ref_frame" :> UninterruptedRefindx)
        knl == ("movement_kernel.warpmode" :> "translation") @@
               ("movement_kernel.ref_frame" :> UninterruptedRefindx)
    IN IF ~TimeSorted(hdrtime) THEN base
       ELSE IF calc_movement_kernel THEN base @@ ref @@ knl
       ELSE base @@ ref

\* C3 (under SpecBetweenFrames): a build stopped between two frames of a
\* pass, or between two passes, and run again to its end leaves the archive
\* one uninterrupted build of the same frames leaves.
C3_ResumedEqualsUninterrupted ==
    status \in {"done", "returned"} =>
        /\ backgrounds = UninterruptedBackgrounds
        /\ pixel_flags = UninterruptedFlags
        /\ images = UninterruptedImages
        /\ images_err = [i \in Frames |-> Exclude(files[i].err, files[i].manexcl)]
        /\ wcs = [i \in Frames |-> files[i].id]
        /\ root = UninterruptedRoot
        /\ attrs = UninterruptedAttrs

\* A build that was interrupted between two frames has run to its end.
C3_ResumedDone ==
    /\ status = "done" /\ interrupts > 0
    /\ numfiles > 1 /\ "movement_kernel" \in DOMAIN root

\* Every pass is marked complete for all the frames.
Complete ==
    /\ status = "done"
    /\ Count(backgrounds) = numfiles /\ Count(pixel_flags) = numfiles
    /\ Count(images) = numfiles /\ Count(wcs) = numfiles
    /\ "sumimage" \in DOMAIN root
    /\ AttrGet("pixel_flags.bkgshe_done", 0) = numfiles

\* C4: with increasing timestamps, finitely many interruptions and the
\* build invoked again after each stop, some build ends with every pass
\* complete for all the frames.
C4_EventuallyComplete == TimeSorted(hdrtime) => <>Complete

-----------------------------------------------------------------------------
(* Builds over the frames of the worked examples, run without interruption. *)

\* Largest number of frames of an example build.
MaxExampleFrames == 5

\* A frame with no mask, no anomaly and the header values of a plain frame.
ExampleFrame(flux, bck, manexcl, dquality) ==
    [id |-> 1, flux |-> flux, err |-> Num(1), bck |-> bck,
     mask |-> FALSE, manexcl |-> manexcl, she |-> FALSE, dquality |-> dquality,
     backapp |-> FALSE, attr |-> 1, barycorr |-> 0]

\* The state before the first build over n frames f with times t: an archive
\* that holds nothing but the attributes a, and no temporary file.
Fresh(n, f, t, ref, a) ==
    /\ numfiles = n /\ files = f /\ hdrtime = t
    /\ calc_movement_kernel = FALSE /\ sector_reference_time = ref
    /\ OneCombination(n) /\ NoPhotometry
    /\ backgrounds = EmptyF /\ pixel_flags = EmptyF /\ images = EmptyF
    /\ images_err = EmptyF /\ wcs = EmptyF /\ attrs = a /\ root = EmptyF
    /\ tmp_exists = FALSE /\ bck_us = EmptyF
    /\ pc = "idle" /\ k = 0 /\ loc = NoLocals /\ calls = NoCalls
    /\ status = "none" /\ runs = 0 /\ interrupts = 0

\* Frames whose raw backgrounds are 0, 10, 20, ... or invalid, smoothed with
\* the default window or with the window an archive's time_smooth asks for.
InitSmoothing ==
    \E n \in 1..MaxExampleFrames :
        \E invalid \in SUBSET (0..(n - 1)) :
            \E a \in {EmptyF} \cup
                     {("backgrounds.time_smooth" :> s) : s \in {1, 2, 5}} :
                Fresh(n,
                      [i \in 0..(n - 1) |->
                          ExampleFrame(Num(100), IF i \in invalid THEN NaN ELSE Num(10 * i),
                                       FALSE, 0)],
                      [i \in 0..(n - 1) |-> 10 * (i + 1)],
                      TJDOffset + 12, a)

\* Frames of flux 10, 20, 30, ... over a constant background, some of them
\* failing the quality filter and some with the pixel manually excluded.
InitSum ==
    \E n \in 1..MaxFrames :
        \E bad \in SUBSET (0..(n - 1)) :
            \E excl \in SUBSET (0..(n - 1)) :
                \E b \in {0, 6} :
                    Fresh(n,
                          [i \in 0..(n - 1) |->
                              ExampleFrame(Num(10 * (i + 1)), Num(b), i \in excl,
                                           IF i \in bad THEN 1 ELSE 0)],
                          [i \in 0..(n - 1) |-> 10 * (i + 1)],
                          TJDOffset + 12, EmptyF)

\* Frames at the times 10, 20, 30, ... (the times 1, 2, 3, ... in tenths),
\* or at these times with two neighbours exchanged, and a reference epoch
\* before, within or after them.
ExampleEpochs == {5, 12, 25, 32, 48, 60}

InitReference ==
    \E n \in 1..MaxExampleFrames :
        \E swap \in 0..(n - 1) :
            \E e \in ExampleEpochs :
                Fresh(n,
                      [i \in 0..(n - 1) |-> ExampleFrame(Num(100), Num(0), FALSE, 0)],
                      [i \in 0..(n - 1) |->
                          IF swap > 0 /\ i = swap - 1 THEN 10 * (i + 2)
                          ELSE IF swap > 0 /\ i = swap THEN 10 * i
                          ELSE 10 * (i + 1)],
                      TJDOffset + e, EmptyF)

InitExamples == InitSmoothing \/ InitSum \/ InitReference

\* The steps of a build that is not interrupted, and of the build after it.
RunStepExamples ==
    \/ OpenTmp
    \/ \E i \in 0..(MaxExampleFrames - 1) : FitBackground(i)
    \/ P1WriteBck \/ P1WriteFlags \/ P1Done
    \/ P2Attrs \/ P2Smooth \/ P2Done \/ RemoveTmp
    \/ P3Skip \/ P3Begin \/ P3ManExcl \/ P3Image \/ P3ImageErr
    \/ P3Wcs \/ P3Normalize \/ P3Attrs \/ P3DelOld \/ P3Create
    \/ P4Skip \/ P4Begin
    \/ \E i \in 0..(MaxExampleFrames - 1) : Shenanigans(i)
    \/ P4NoFlags \/ P4Mark \/ P4Done
    \/ CheckTime \/ WriteRef

NextExamples == Invoke \/ RunStepExamples

SpecExamples == InitExamples /\ [][NextExamples]_vars

\* The sum of the valid values f[i], i in S, as a fraction <<n, d>> that is
\* not reduced.
RECURSIVE Total(_, _)
Total(f, S) ==
    IF S = {} THEN <<0, 1>>
    ELSE LET i == CHOOSE x \in S : TRUE
             t == Total(f, S \ {i})
         IN <<f[i][1] * t[2] + t[1] * f[i][2], f[i][2] * t[2]>>

\* The valid value v is the mean of the values f[i], i in S.
IsMeanOf(v, f, S) ==
    /\ v[2] > 0
    /\ v[1] * Cardinality(S) * Total(f, S)[2] = Total(f, S)[1] * v[2]

\* The raw backgrounds are those of the worked example: 0, 10, 20, 30, 40.
SmoothingExample ==
    /\ numfiles = 5
    /\ \A i \in 0..4 : files[i].bck = Num(10 * i)
    /\ AttrGet("backgrounds.time_smooth", time_smooth_default) = 3

\* C11: the smoothed background stored under index i is the mean of the
\* valid raw backgrounds of the frames i-w .. i+w that exist, w being half
\* the window size rounded down (invalid when none of them is valid); for
\* the raw backgrounds 0, 10, 20, 30, 40 and window size 3 it is 20 under
\* index 2 and 5 under index 0.
C11_SmoothedIsWindowMean ==
    /\ \A i \in DOMAIN backgrounds :
        LET w == AttrGet("backgrounds.time_smooth", time_smooth_default) \div 2
            raw == [j \in 0..(numfiles - 1) |-> files[j].bck]
            valid == {j \in 0..(numfiles - 1) :
                         i - w <= j /\ j <= i + w /\ IsFinite(raw[j])}
            mean == backgrounds[i]
        IN IF valid = {} THEN ~IsFinite(mean)
           ELSE IsMeanOf(mean, raw, valid)
    /\ SmoothingExample =>
        /\ 2 \in DOMAIN backgrounds => backgrounds[2] = Num(20)
        /\ 0 \in DOMAIN backgrounds => backgrounds[0] = Num(5)

\* Pass 2 has smoothed the five frames of the worked example.
C11_ExampleSmoothed ==
    /\ SmoothingExample /\ Count(backgrounds) = 5
    /\ backgrounds[2] = Num(20) /\ backgrounds[0] = Num(5)

\* The frames are those of the worked example: flux 10, 20, 30, no
\* background, all passing the quality filter, no pixel excluded.
SumExample ==
    /\ numfiles = 3
    /\ \A i \in 0..2 :
           /\ files[i].flux = Num(10 * (i + 1)) /\ files[i].bck = Num(0)
           /\ QualityFilter(files[i].dquality) /\ ~files[i].manexcl

\* Pass 3 has normalized its sum image.
Normalized == pc \in {"p3_attrs", "p3_del", "p3_create"}

NormalizeStep == pc = "p3_loop" /\ pc' = "p3_attrs"

\* C13: over the runs and re-runs of a build, a sum image is normalized only
\* when the run has added every one of the numfiles finalized frames to it
\* and no sum image is stored; the sum image that gets stored is the
\* normalized one, and a stored sum image is never removed or changed.
C13_NormalizedOnce ==
    [][ /\ NormalizeStep =>
            /\ k = numfiles
            /\ Count(images) = numfiles /\ Count(wcs) = numfiles
            /\ DOMAIN loc.time = 0..(numfiles - 1)
            /\ "sumimage" \notin DOMAIN root
        /\ "sumimage" \in DOMAIN root =>
            /\ "sumimage" \in DOMAIN root'
            /\ root'["sumimage"] = root["sumimage"]
        /\ ("sumimage" \notin DOMAIN root /\ "sumimage" \in DOMAIN root') =>
            /\ pc = "p3_create" /\ root'["sumimage"] = loc.SumImage ]_vars

\* A build run again after an interruption finds the sum image stored and
\* goes on to pass 4 without a pass 3 of its own.
C13_StoredSkipped ==
    /\ interrupts > 0 /\ pc = "p4_check"
    /\ "sumimage" \in DOMAIN root /\ loc.SumImage = root["sumimage"]
    /\ loc.time = EmptyF

\* Some frame's time is not after the time of the frame before it.
OutOfOrder == \E i \in 1..(numfiles - 1) : hdrtime[i] <= hdrtime[i - 1]

\* C14: a build over frames whose times are not strictly increasing (such as
\* 10, 30, 20) never gets past the check of the time vector: it ends there
\* with the error logged, and neither a reference frame nor a movement
\* kernel is ever written to the archive.
C14_UnsortedRejected ==
    OutOfOrder =>
        /\ pc \notin {"ref", "p5_loop", "p5_attrs"}
        /\ status # "done"
        /\ "wcs.ref_frame" \notin DOMAIN attrs
        /\ "movement_kernel" \notin DOMAIN root
        /\ "movement_kernel.ref_frame" \notin DOMAIN attrs

\* A build over three frames with the times 10, 30, 20 has ended at the check.
C14_Returned ==
    /\ numfiles = 3 /\ hdrtime[1] = 30 /\ hdrtime[2] = 20
    /\ status = "returned" /\ calc_movement_kernel
    /\ "time" \in DOMAIN root

\* The reference time of the sector lies outside the times of the frames.
OutsideTimespan ==
    \/ sector_reference_time - TJDOffset < hdrtime[0]
    \/ sector_reference_time - TJDOffset > hdrtime[numfiles - 1]

\* C15: when the reference time lies outside the times of the frames, no
\* reference frame is written to the archive and no movement kernel is
\* computed.
C15_OutsideNoReference ==
    OutsideTimespan =>
        /\ "wcs.ref_frame" \notin DOMAIN attrs
        /\ pc \notin {"p5_loop", "p5_attrs"}
        /\ "movement_kernel" \notin DOMAIN root

-----------------------------------------------------------------------------
(* Builds in which a collaborator raises.  There is no try around the       *)
(* loops over m(...): the exception comes out of the iteration when the     *)
(* loop asks for the result of frame k, and leaves create_hdf5 as it is.    *)

\* The exceptions a collaborator raises.
CollaboratorErrors == {"ValueError", "RuntimeError"}

\* The exception e leaves create_hdf5; the stop counts as an interruption.
Propagate(e) ==
    /\ interrupts < MaxInterrupts
    /\ pc' = "idle" /\ k' = 0 /\ loc' = NoLocals /\ calls' = NoCalls
    /\ status' = e
    /\ interrupts' = interrupts + 1
    /\ UNCHANGED <<inputs, store, tmpfile, runs>>

\* fit_background raises for frame k.
EstimatorFails ==
    /\ pc = "p1_loop" /\ k < numfiles /\ k \in calls.fit
    /\ \E e \in CollaboratorErrors : Propagate(e)

\* pixel_background_shenanigans raises for the image of frame k.
DetectorFails ==
    /\ pc = "p4_loop" /\ k \in calls.she
    /\ \E e \in CollaboratorErrors : Propagate(e)

NextFailing == Next \/ EstimatorFails \/ DetectorFails

SpecFailing == Init /\ [][NextFailing]_vars

\* The step in which a collaborator's exception for frame k leaves the build.
FailureStep == pc \in {"p1_loop", "p4_loop"} /\ status' \in CollaboratorErrors

\* C16: when the estimator or the detector raises for frame k, the build is
\* over with that step and the step writes nothing; in a first build the
\* pass has then committed results for the frames before k and for no other
\* frame: the raw backgrounds and flags of pass 1 are those of 0..k-1, the
\* marker of pass 4 is k and no frame from k on carries a flag of pass 4.
C16_FailureAbortsPass ==
    [][ FailureStep =>
            /\ pc' = "idle"
            /\ store' = store /\ tmpfile' = tmpfile
            /\ (runs = 1 /\ pc = "p1_loop") =>
                   /\ DOMAIN pixel_flags = 0..(k - 1)
                   /\ DOMAIN bck_us = 0..(k - 1)
                   /\ backgrounds = EmptyF /\ images = EmptyF
            /\ (runs = 1 /\ pc = "p4_loop") =>
                   /\ AttrGet("pixel_flags.bkgshe_done", 0) = k
                   /\ \A i \in k..(numfiles - 1) :
                          BackgroundShenanigans \notin pixel_flags[i]
                   /\ "wcs.ref_frame" \notin DOMAIN attrs ]_vars

\* The error of stage, raised for frame i, with the context the build adds.
Annotated(e, stage, i) == stage \o ", frame " \o ToString(i) \o ": " \o e

\* C17: the error the build ends with when a collaborator raises for frame k
\* names the pass and the frame.
C17_ErrorNamesFrameAndPass ==
    [][ FailureStep =>
            \E e \in CollaboratorErrors :
                status' = Annotated(e, IF pc = "p1_loop" THEN "pass 1" ELSE "pass 4", k)
      ]_vars


-----------------------------------------------------------------------------
(* The loop over the combinations of sector, camera and CCD, in the first   *)
(* build of a folder: no archive and no temporary file exists yet.  The     *)
(* archive variables are the archive of the combination at hand, each       *)
(* combination having an archive of its own.                                *)
MaxCombos == 2
MaxComboFrames == 1

\* What find_ffi_files and find_catalog_files find for one combination:
\* the number of FFI files, and a catalog that is found with a settings
\* row ("ok"), found without one ("empty"), or not found ("missing").
Combinations ==
    [numfiles : 0..MaxComboFrames, catalog : {"ok", "missing", "empty"}]

InitCatalog ==
    /\ \E n \in 1..MaxCombos : combos \in [1..n -> Combinations]
    /\ ci = 0 /\ catalog_failed = FALSE /\ NoPhotometry
    /\ numfiles = 0 /\ files = EmptyF /\ hdrtime = EmptyF
    /\ calc_movement_kernel \in BOOLEAN
    /\ sector_reference_time = 0
    /\ backgrounds = EmptyF /\ pixel_flags = EmptyF /\ images = EmptyF
    /\ images_err = EmptyF /\ wcs = EmptyF /\ attrs = EmptyF /\ root = EmptyF
    /\ tmp_exists = FALSE /\ bck_us = EmptyF
    /\ pc = "idle" /\ k = 0 /\ loc = NoLocals /\ calls = NoCalls
    /\ status = "none" /\ runs = 0 /\ interrupts = 0

\* create_hdf5 is called and reaches its loop.
Start ==
    /\ pc = "idle" /\ runs = 0
    /\ pc' = "combo" /\ status' = "running" /\ runs' = 1
    /\ UNCHANGED <<inputs, store, tmpfile, k, loc, calls, interrupts>>

\* continue: the loop takes the next combination, or is over.
Continue(failed) ==
    /\ ci' = ci + 1
    /\ catalog_failed' = (catalog_failed \/ failed)
    /\ IF ci + 1 < Len(combos)
       THEN pc' = "combo" /\ status' = status
       ELSE pc' = "idle" /\ status' = "done"
    /\ UNCHANGED <<numfiles, files, hdrtime, calc_movement_kernel,
                   sector_reference_time, combos, tessphot, store, tmpfile,
                   k, loc, calls, runs, interrupts>>

\* if numfiles == 0: continue
NoFiles ==
    /\ pc = "combo" /\ ci < Len(combos)
    /\ combos[ci + 1].numfiles = 0
    /\ Continue(FALSE)

\* if len(catalog_file) != 1: logger.error(...); continue
NoCatalogFile ==
    /\ pc = "combo" /\ ci < Len(combos)
    /\ combos[ci + 1].numfiles > 0 /\ combos[ci + 1].catalog = "missing"
    /\ Continue(TRUE)

\* if row is None: raise IOError("Settings could not be loaded from catalog")
NoSettingsRow ==
    /\ pc = "combo" /\ ci < Len(combos)
    /\ combos[ci + 1].numfiles > 0 /\ combos[ci + 1].catalog = "empty"
    /\ ci' = ci + 1 /\ catalog_failed' = TRUE
    /\ pc' = "idle" /\ status' = "IOError"
    /\ UNCHANGED <<numfiles, files, hdrtime, calc_movement_kernel,
                   sector_reference_time, combos, tessphot, store, tmpfile,
                   k, loc, calls, runs, interrupts>>

\* The frames of a combination and their times.
ComboFiles(n) == [i \in 0..(n - 1) |-> ExampleFrame(Num(10 * (i + 1)), Num(0), FALSE, 0)]
ComboTimes(n) == [i \in 0..(n - 1) |-> 10 * (i + 1)]

\* The files and the settings row are there: the combination's archive is
\* created and opened.
OpenArchive ==
    /\ pc = "combo" /\ ci < Len(combos)
    /\ combos[ci + 1].numfiles > 0 /\ combos[ci + 1].catalog = "ok"
    /\ ci' = ci + 1
    /\ numfiles' = combos[ci + 1].numfiles
    /\ files' = ComboFiles(numfiles')
    /\ hdrtime' = ComboTimes(numfiles')
    /\ sector_reference_time' = TJDOffset + 12
    /\ backgrounds' = EmptyF /\ pixel_flags' = EmptyF /\ images' = EmptyF
    /\ images_err' = EmptyF /\ wcs' = EmptyF /\ attrs' = EmptyF
    /\ root' = EmptyF
    /\ pc' = "tmp_open" /\ k' = 0 /\ calls' = NoCalls
    /\ loc' = [NoLocals EXCEPT !.time_smooth = time_smooth_default]
    /\ UNCHANGED <<calc_movement_kernel, combos, catalog_failed, tessphot,
                   tmpfile, status, runs, interrupts>>

RunStepCatalog ==
    \/ OpenTmp
    \/ \E i \in 0..(MaxComboFrames - 1) : FitBackground(i)
    \/ P1WriteBck \/ P1WriteFlags \/ P1Done
    \/ P2Attrs \/ P2Smooth \/ P2Done \/ RemoveTmp
    \/ P3Begin \/ P3ManExcl \/ P3Image \/ P3ImageErr
    \/ P3Wcs \/ P3Normalize \/ P3Attrs \/ P3DelOld \/ P3Create
    \/ P4Begin
    \/ \E i \in 0..(MaxComboFrames - 1) : Shenanigans(i)
    \/ P4NoFlags \/ P4Mark \/ P4Done
    \/ CheckTime \/ WriteRef
    \/ \E i \in 0..(MaxComboFrames - 1) : CalcKernel(i)
    \/ P5Collect \/ P5Save \/ P5Attrs

NextCatalog ==
    Start \/ NoFiles \/ NoCatalogFile \/ NoSettingsRow \/ OpenArchive
          \/ RunStepCatalog

SpecCatalog == InitCatalog /\ [][NextCatalog]_vars

\* C18: once a catalog lookup has failed (the catalog file is not found, or
\* it holds no settings row), the build is over and has ended with an
\* error: no pass is under way on any archive.
C18_CatalogFailureFatal ==
    catalog_failed => pc = "idle" /\ status = "IOError"

-----------------------------------------------------------------------------
(* Header values that should be constant over the frames.                   *)

\* Pass 3 is at a frame whose value differs from the value of frame 0.
AtMismatch == pc = "p3_loop" /\ k < numfiles /\ files[k].attr # files[0].attr

\* C19: a frame whose value of a constant header attribute differs from the
\* value of frame 0 does not end the build, which goes on with the frame's
\* image; and whenever the attribute is stored in the archive, in a first
\* run or in a re-run, every frame's image is stored and the value is the
\* value of frame 0.
C19_MismatchNotFatal ==
    [][/\ AtMismatch /\ status' # "interrupted"
            => pc' = "p3_image" /\ status' = status
       /\ "images.CAMERA" \in DOMAIN attrs'
            => /\ attrs'["images.CAMERA"] = files[0].attr
               /\ DOMAIN images' = 0..(numfiles - 1)]_vars

C19_MismatchStored ==
    /\ files[0].attr = 2 /\ files[numfiles - 1].attr = 1
    /\ interrupts > 0 /\ runs = 2 /\ status = "done"
    /\ "images.CAMERA" \in DOMAIN attrs /\ attrs["images.CAMERA"] = 2
    /\ DOMAIN images = 0..(numfiles - 1)

-----------------------------------------------------------------------------
(* The reference frame.                                                     *)

\* The worked example: the times 1, 2, 3, 4, 5 and the epoch 3.2, in tenths.
ReferenceExample ==
    /\ numfiles = 5 /\ hdrtime = [i \in 0..4 |-> 10 * (i + 1)]
    /\ sector_reference_time = TJDOffset + 32

\* C20: the reference index stored in the archive is the index of a frame
\* whose timestamp no other frame's timestamp is nearer to the reference
\* epoch than (index 2 for the times 1, 2, 3, 4, 5 and the epoch 3.2), and
\* it is stored only when the timestamps of all N frames are stored and
\* strictly increasing.
C20_ReferenceIsNearest ==
    "wcs.ref_frame" \in DOMAIN attrs =>
        LET r == attrs["wcs.ref_frame"]
            e == sector_reference_time - TJDOffset
        IN /\ "time" \in DOMAIN root
           /\ root["time"] = hdrtime
           /\ \A i \in 1..(numfiles - 1) : hdrtime[i - 1] < hdrtime[i]
           /\ r \in 0..(numfiles - 1)
           /\ \A j \in 0..(numfiles - 1) :
                  Abs(hdrtime[r] - e) <= Abs(hdrtime[j] - e)
           /\ (ReferenceExample => r = 2)

C20_ExampleReference ==
    /\ ReferenceExample /\ status = "done"
    /\ "wcs.ref_frame" \in DOMAIN attrs /\ attrs["wcs.ref_frame"] = 2

-----------------------------------------------------------------------------
(* The movement kernels.                                                    *)

\* Pass 5 is under way: from the decision to compute the kernels to the
\* last attribute of the stored kernel.
InPass5 == pc \in {"p5_loop", "p5_attrs"}

\* C21: pass 5 begins only if calc_movement_kernel is set and the archive
\* holds no movement kernel; a stored kernel has, for every frame k, the
\* registration of image k against the image of the reference frame; and
\* a pass 5 that is interrupted leaves no movement kernel in the archive.
C21_KernelAllOrNothing ==
    [][/\ InPass5' /\ ~InPass5
            => calc_movement_kernel /\ "movement_kernel" \notin DOMAIN root
       /\ "movement_kernel" \in DOMAIN root'
            => /\ "wcs.ref_frame" \in DOMAIN attrs'
               /\ DOMAIN root'["movement_kernel"] = 0..(numfiles - 1)
               /\ \A i \in 0..(numfiles - 1) :
                      root'["movement_kernel"][i] =
                          <<images'[i], images'[attrs'["wcs.ref_frame"]]>>
       /\ InPass5 /\ status' = "interrupted"
            => "movement_kernel" \notin DOMAIN root']_vars

-----------------------------------------------------------------------------
(* The backgrounds_pixels_used image.                                       *)

\* The frames in whose stored flags the pixel is not marked as not used
\* for the background.
UsedFrames(flags) ==
    {i \in 0..(numfiles - 1) : i \in DOMAIN flags /\ NotUsedForBackground \notin flags[i]}

-----------------------------------------------------------------------------
(* Pass 1 with a pool of workers: the estimator's calls return in any       *)
(* order.                                                                   *)

\* pool.imap hands the next frame of files[k:] to a worker.
Dispatch(i) ==
    /\ NextToFit(i)
    /\ calls' = [calls EXCEPT !.fit = @ \cup {i}]
    /\ UNCHANGED <<inputs, store, tmpfile, pc, k, loc, ghost>>

\* The call of a worker returns.
WorkerReturns(i) ==
    /\ pc \in {"p1_loop", "p1_flags"}
    /\ i \in calls.fit \ calls.fin
    /\ calls' = [calls EXCEPT !.fin = @ \cup {i}]
    /\ UNCHANGED <<inputs, store, tmpfile, pc, k, loc, ghost>>

NextWorkers ==
    \/ Invoke \/ OpenTmp
    \/ \E i \in 0..(MaxFrames - 1) : Dispatch(i)
    \/ \E i \in 0..(MaxFrames - 1) : WorkerReturns(i)
    \/ P1WriteBck \/ P1WriteFlags \/ P1Done
    \/ Interrupt

SpecWorkers == Init /\ [][NextWorkers]_vars

\* The keys that a step adds to a group.
Added(old, new) == DOMAIN new \ DOMAIN old

\* C23: in pass 1, in a first run and in a run resumed after some frames,
\* the raw background and the flags stored under key k are the estimator's
\* result for files[k], and the keys are added in increasing order with no
\* key left out, in whatever order the workers return.
C23_CommittedInOrder ==
    [][/\ \A i \in DOMAIN bck_us' : bck_us'[i] = files[i].bck
       /\ \A i \in DOMAIN pixel_flags' :
              pixel_flags'[i] = IF files[i].mask THEN {NotUsedForBackground} ELSE {}
       /\ \A i \in Added(bck_us, bck_us') : DOMAIN bck_us = 0..(i - 1)
       /\ \A i \in Added(pixel_flags, pixel_flags') :
              DOMAIN pixel_flags = 0..(i - 1)]_vars

\* A run resumed after frame 0 was committed waits for the worker of frame
\* 1, the worker of frame 2 having returned before it.
C23_OutOfOrderReturn ==
    /\ runs = 2 /\ interrupts > 0 /\ loc.last_bck_fit = 0
    /\ pc = "p1_loop" /\ k = 1
    /\ calls.fit = {1, 2} /\ calls.fin = {2}
    /\ DOMAIN pixel_flags = {0}
    /\ files[0].id # files[1].id

-----------------------------------------------------------------------------
(* Resuming pass 1.                                                         *)

\* C24: no run attempts to create a raw background or a flags dataset under
\* a key that already exists, wherever pass 1 was interrupted before, and
\* pass 1 ends with one raw background and one flags dataset for every
\* index in [0, N).
C24_ResumeSkipsWritten ==
    /\ status # "exists"
    /\ pc = "p2_attrs" =>
           /\ DOMAIN bck_us = 0..(numfiles - 1)
           /\ DOMAIN pixel_flags = 0..(numfiles - 1)

-----------------------------------------------------------------------------
(* The uncertainties of the images.                                         *)

\* C25: once a run has finished pass 3, and after any build that has
\* completed, images_err holds an entry for every index in [0, N), as
\* images does.
C25_ErrForEveryImage ==
    pc = "p4_check" \/ status = "done" =>
        /\ DOMAIN images_err = 0..(numfiles - 1)
        /\ DOMAIN images_err = DOMAIN images

-----------------------------------------------------------------------------
(* Builds of a folder to which frames are added between the builds.         *)

InitGrowing ==
    \E n \in 1..(MaxFrames - 1) :
        \E f \in [0..(n - 1) -> FrameKinds] :
            Fresh(n, f, [i \in 0..(n - 1) |-> 10 * (i + 1)], TJDOffset + 12, EmptyF)

\* Between two builds a new FFI file appears in the folder: find_ffi_files
\* returns it after the files it returned before.
MoreFrames ==
    /\ pc = "idle" /\ runs > 0 /\ numfiles < MaxFrames
    /\ numfiles' = numfiles + 1
    /\ \E f \in FrameKinds : files' = Put(files, numfiles, f)
    /\ hdrtime' = Put(hdrtime, numfiles, 10 * (numfiles + 1))
    /\ combos' = <<[numfiles |-> numfiles + 1, catalog |-> "ok"]>>
    /\ UNCHANGED <<calc_movement_kernel, sector_reference_time, ci,
                   catalog_failed, tessphot, store, tmpfile, run, ghost>>

NextGrowing == Invoke \/ MoreFrames \/ RunStepExamples \/ P2Skip \/ P4Flags

SpecGrowing == InitGrowing /\ [][NextGrowing]_vars

\* C26: whenever pass 2 is about to smooth frame k, the temporary store
\* holds a raw background for every index of the window of k, also in a
\* build made after frames were added to a folder whose build had completed.
C26_WindowPresent ==
    pc = "p2_loop" /\ k < numfiles /\ k \notin DOMAIN backgrounds =>
        \A j \in 0..(numfiles - 1) :
            k - loc.time_smooth \div 2 <= j /\ j <= k + loc.time_smooth \div 2
                => j \in DOMAIN bck_us

-----------------------------------------------------------------------------
(* _try_photometry of tessphot.py.  The photometry object is a              *)
(* collaborator: its constructor, photometry, save_lightcurve and           *)
(* report_details return, or raise what the outcomes say; entering and      *)
(* leaving the with statement hands the object over and lets an exception   *)
(* of its body through.                                                     *)

Interrupts == {"KeyboardInterrupt", "SystemExit"}
Exceptions == Interrupts \cup {"Exception"}
MethodOutcomes == {"ok"} \cup Exceptions

\* The values of STATUS that the sources name, and any other value.
Statuses == {"OK", "WARNING", "ERROR", "ABORT", "OTHER"}

\* pho.status, for an object whose _status is s
StatusOf(s) == s

\* No build is made: create_hdf5 is not called.
NoBuild ==
    /\ numfiles = 0 /\ files = EmptyF /\ hdrtime = EmptyF
    /\ calc_movement_kernel = FALSE /\ sector_reference_time = 0
    /\ combos = <<>> /\ ci = 0 /\ catalog_failed = FALSE
    /\ backgrounds = EmptyF /\ pixel_flags = EmptyF /\ images = EmptyF
    /\ images_err = EmptyF /\ wcs = EmptyF /\ attrs = EmptyF /\ root = EmptyF
    /\ tmp_exists = FALSE /\ bck_us = EmptyF
    /\ pc = "idle" /\ k = 0 /\ loc = NoLocals /\ calls = NoCalls
    /\ status = "none" /\ runs = 0 /\ interrupts = 0

\* _try_photometry is called: pho is not bound, tbcollect is empty.
InitTry ==
    /\ NoBuild
    /\ outcomes \in [init : MethodOutcomes, status0 : Statuses,
                     photometry : MethodOutcomes, status1 : Statuses,
                     save_lightcurve : MethodOutcomes,
                     report_details : {"ok", "Exception"}]
    /\ try = [pc |-> "with", pho |-> FALSE, pstatus |-> "none", saved |-> FALSE,
              tbcollect |-> 0, result |-> "none", result_status |-> "none"]

build == <<numfiles, files, hdrtime, calc_movement_kernel, sector_reference_time,
           outer, store, tmpfile, run, ghost>>

\* except (KeyboardInterrupt, SystemExit): ... except: ...
ExceptClause(e) ==
    IF e \in Interrupts THEN "except_interrupt"
    ELSE IF e \in Exceptions THEN "except"
    ELSE "propagated"

\* with PhotClass(*args, **kwargs) as pho
Construct ==
    /\ try.pc = "with"
    /\ try' = IF outcomes.init = "ok"
              THEN [try EXCEPT !.pc = "photometry", !.pho = TRUE,
                               !.pstatus = outcomes.status0]
              ELSE [try EXCEPT !.pc = ExceptClause(outcomes.init)]
    /\ UNCHANGED <<build, outcomes>>

\* pho.photometry(): it returns and leaves a status, or raises
Photometry ==
    /\ try.pc = "photometry"
    /\ try' = IF outcomes.photometry = "ok"
              THEN [try EXCEPT !.pc = "check", !.pstatus = outcomes.status1]
              ELSE [try EXCEPT !.pc = ExceptClause(outcomes.photometry)]
    /\ UNCHANGED <<build, outcomes>>

\* A faulty variant that saves whatever the status.
SaveAllowedMut(s) == TRUE

\* pho.status in (STATUS.OK, STATUS.WARNING)
SaveAllowed(s) == s \in {"OK", "WARNING"}

\* pho.save_lightcurve()
SaveLightcurve ==
    /\ try.pc = "check" /\ SaveAllowed(StatusOf(try.pstatus))
    /\ try' = [try EXCEPT
                 !.saved = TRUE,
                 !.pc = IF outcomes.save_lightcurve = "ok" THEN "return"
                        ELSE ExceptClause(outcomes.save_lightcurve)]
    /\ UNCHANGED <<build, outcomes>>

NoSave ==
    /\ try.pc = "check" /\ ~SaveAllowed(StatusOf(try.pstatus))
    /\ try' = [try EXCEPT !.pc = "return"]
    /\ UNCHANGED <<build, outcomes>>

\* pho._status = STATUS.ABORT, unless pho is unbound (the UnboundLocalError
\* is passed over)
ExceptInterrupt ==
    /\ try.pc = "except_interrupt"
    /\ try' = [try EXCEPT !.pc = "return",
                          !.pstatus = IF try.pho THEN "ABORT" ELSE @]
    /\ UNCHANGED <<build, outcomes>>

\* pho._status = STATUS.ERROR and pho.report_details(error=tb); what either
\* raises puts the traceback into tbcollect
ExceptAny ==
    /\ try.pc = "except"
    /\ try' = [try EXCEPT
                 !.pc = "return",
                 !.pstatus = IF try.pho THEN "ERROR" ELSE @,
                 !.tbcollect = IF try.pho /\ outcomes.report_details = "ok"
                               THEN @ ELSE @ + 1]
    /\ UNCHANGED <<build, outcomes>>

\* return pho, or _PhotErrorDummy(tbcollect, ...) if pho is unbound
Return ==
    /\ try.pc = "return"
    /\ try' = IF try.pho
              THEN [try EXCEPT !.pc = "returned", !.result = "pho",
                               !.result_status = StatusOf(try.pstatus)]
              ELSE [try EXCEPT !.pc = "returned", !.result = "dummy",
                               !.result_status = "ERROR"]
    /\ UNCHANGED <<build, outcomes>>

NextTry ==
    Construct \/ Photometry \/ SaveLightcurve \/ NoSave \/ ExceptInterrupt
              \/ ExceptAny \/ Return

SpecTry == InitTry /\ [][NextTry]_vars

\* What is raised inside the object once it is constructed: by photometry,
\* or by save_lightcurve if it is called.
RaisedInside ==
    IF outcomes.photometry # "ok" THEN outcomes.photometry
    ELSE IF outcomes.status1 \in {"OK", "WARNING"} THEN outcomes.save_lightcurve
    ELSE "ok"

\* C27: _try_photometry lets no exception and no interrupt through to its
\* caller; save_lightcurve is called only after photometry has returned
\* with the status OK or WARNING; and what it returns has a status: ERROR on
\* a dummy object if the photometry object could not be constructed, and
\* otherwise the object itself, with ERROR after an exception raised inside
\* it, ABORT after an interrupt, and the status photometry left if neither.
C27_AlwaysReturnsStatus ==
    /\ try.pc # "propagated"
    /\ try.saved =>
           /\ outcomes.init = "ok" /\ outcomes.photometry = "ok"
           /\ outcomes.status1 \in {"OK", "WARNING"}
    /\ try.pc = "returned" =>
           /\ try.result_status \in Statuses
           /\ outcomes.init # "ok" =>
                  try.result = "dummy" /\ try.result_status = "ERROR"
           /\ outcomes.init = "ok" =>
                  /\ try.result = "pho"
                  /\ try.result_status =
                         IF RaisedInside \in Interrupts THEN "ABORT"
                         ELSE IF RaisedInside = "Exception" THEN "ERROR"
                         ELSE outcomes.status1

\* The constructor has raised: the dummy object is returned, with the
\* traceback it was given.
C27_DummyReturned ==
    /\ outcomes.init = "Exception"
    /\ try.pc = "returned" /\ try.result = "dummy"
    /\ try.result_status = "ERROR" /\ try.tbcollect = 1

====
